---- MODULE Spec2Model ----
(***************************************************************************)
(* Model of the opportunity-detection core of Hedge_trimmer                *)
(* (src/main_hedge_analysis.py, class AFLOpportunityFinder) and of the     *)
(* odds scraper that feeds it (src/afl_selenium_scraper_NEW.py, class      *)
(* AFLSeleniumScraper).  Spec is a run of the analysis, ScraperSpec a run  *)
(* of the scraper.                                                         *)
(*                                                                         *)
(* Numbers are exact rationals <<num, den>> (den > 0, lowest terms): the   *)
(* Python floats of the source are modelled by the real values they stand  *)
(* for.  round(x, 2) is modelled as rounding to the nearest hundredth,     *)
(* ties to even.                                                           *)
(***************************************************************************)
EXTENDS Integers, Sequences, FiniteSets, TLC

(***************************************************************************)
(* Bounds of the explored input space.                                     *)
(***************************************************************************)
\* number of matches in the loaded dataset
MaxMatches == 2
\* total number of bookmaker quotes in the loaded dataset
MaxQuotes == 2
\* number of defective entries in the loaded dataset: match entries that lack
\* a field, quotes that lack a price or carry a price that is not positive
MaxDefects == 1
\* total number of match entries the parsers return in one scraper run
MaxListings == 2

(***************************************************************************)
(* Exact rational arithmetic.                                              *)
(***************************************************************************)
Abs(n) == IF n < 0 THEN -n ELSE n
Sgn(n) == IF n < 0 THEN -1 ELSE 1

RECURSIVE GCD(_, _)
GCD(a, b) == IF b = 0 THEN a ELSE GCD(b, a % b)

DivideBy(n, d, g) == <<n \div g, d \div g>>
Reduce(n, d) == DivideBy(n, d, GCD(Abs(n), d))
\* the rational n/d in lowest terms with a positive denominator
R(n, d) == Reduce(Sgn(d) * n, Sgn(d) * d)

Int2R(n) == <<n, 1>>
Zero == <<0, 1>>
One == <<1, 1>>

AddOver(x, y, g) ==
    R(x[1] * (y[2] \div g) + y[1] * (x[2] \div g), (x[2] \div g) * y[2])
RAdd(x, y) == AddOver(x, y, GCD(x[2], y[2]))
RNeg(x) == <<-x[1], x[2]>>
RSub(x, y) == RAdd(x, RNeg(y))
Times(a, b) == <<a[1] * b[1], a[2] * b[2]>>
RMul(x, y) == Times(R(x[1], y[2]), R(y[1], x[2]))
\* x / y for y # 0
RDiv(x, y) == RMul(x, R(y[2], y[1]))
LessOver(x, y, g) == x[1] * (y[2] \div g) < y[1] * (x[2] \div g)
RLt(x, y) == LessOver(x, y, GCD(x[2], y[2]))
RLe(x, y) == ~RLt(y, x)
RGt(x, y) == RLt(y, x)
RGe(x, y) == ~RLt(x, y)
RMin(x, y) == IF RLt(y, x) THEN y ELSE x

\* round(x, 2): nearest hundredth, ties to even
RoundHalfEven(q, r, d) ==
    IF 2 * r > d THEN q + 1
    ELSE IF 2 * r < d THEN q
    ELSE IF q % 2 = 0 THEN q ELSE q + 1
round2(x) ==
    R(RoundHalfEven((x[1] * 100) \div x[2], (x[1] * 100) % x[2], x[2]), 100)

(***************************************************************************)
(* The input space: odds datasets as load_odds_from_file hands them over.  *)
(* A quote is the dict {"home": h, "away": a} of one bookmaker; a key the  *)
(* dict lacks is a field the record lacks.  The odds mapping of a match is *)
(* the sequence of its quotes in dict order; the bookmaker of a quote is   *)
(* its position in that order.                                             *)
(***************************************************************************)
Quotes ==
    { [home |-> R(21, 10), away |-> R(41, 20)],
      [home |-> R(39, 20), away |-> R(11, 5)],
      [home |-> R(3, 2),   away |-> Int2R(3)],
      [home |-> Int2R(3),  away |-> R(3, 2)],
      [home |-> R(9, 5),   away |-> R(9, 5)],
      [home |-> Zero,      away |-> R(11, 5)],
      [home |-> R(21, 10), away |-> Int2R(-1)],
      [away |-> Int2R(2)] }

RECURSIVE QuoteSeqs(_)
QuoteSeqs(k) ==
    IF k = 0 THEN { <<>> }
    ELSE { Append(s, q) : s \in QuoteSeqs(k - 1), q \in Quotes }

\* the match entries that carry exactly k quotes
MatchesWith(k) ==
    { [home_team |-> "H", away_team |-> "A", odds |-> o] : o \in QuoteSeqs(k) }
    \cup (IF k = 0
          THEN { [away_team |-> "A", odds |-> <<>>],
                 [home_team |-> "H", odds |-> <<>>],
                 [home_team |-> "H", away_team |-> "A"] }
          ELSE {})

\* For each match of a dataset the number of its quotes: at most MaxMatches
\* matches that carry at most MaxQuotes quotes in total.
RECURSIVE SumOf(_)
SumOf(ks) == IF ks = <<>> THEN 0 ELSE ks[1] + SumOf(Tail(ks))

QuoteCounts ==
    UNION { { ks \in [1..m -> 0..MaxQuotes] : SumOf(ks) <= MaxQuotes }
            : m \in 0..MaxMatches }

\* the lists of matches in which the match at index i carries ks[i] quotes
RECURSIVE MatchLists(_)
MatchLists(ks) ==
    IF ks = <<>> THEN { <<>> }
    ELSE { <<x>> \o l : x \in MatchesWith(ks[1]), l \in MatchLists(Tail(ks)) }

\* the number of defective entries of a list of matches
QuoteDefect(q) ==
    IF DOMAIN q = {"home", "away"} /\ RGt(q.home, Zero) /\ RGt(q.away, Zero)
    THEN 0 ELSE 1

RECURSIVE QuoteDefects(_)
QuoteDefects(odds) ==
    IF odds = <<>> THEN 0 ELSE QuoteDefect(odds[1]) + QuoteDefects(Tail(odds))

RECURSIVE Defects(_)
Defects(l) ==
    IF l = <<>> THEN 0
    ELSE (IF DOMAIN l[1] = {"home_team", "away_team", "odds"}
          THEN QuoteDefects(l[1].odds) ELSE 1)
         + Defects(Tail(l))

\* the datasets with the quote counts ks
Datasets(ks) == { l \in MatchLists(ks) : Defects(l) <= MaxDefects }

Bankrolls == { Int2R(1000), R(54, 5) }
MinProfits == { Zero, Int2R(22) }
MaxStakes == { One, Int2R(25) }

\* The configurations <<bankroll, min_profit_percentage, max_stake_percentage>>
\* of the analysed runs: the bankroll of main() with its cap of 25% under both
\* thresholds, and the small bankroll under the cap of 1%.
Configurations ==
    { c \in Bankrolls \X MinProfits \X MaxStakes :
        IF c[1] = Int2R(1000) THEN c[3] = Int2R(25)
        ELSE c[2] = Zero /\ c[3] = One }

(***************************************************************************)
(* State.                                                                  *)
(***************************************************************************)
VARIABLES
    bankroll,               \* self.bankroll
    min_profit_percentage,  \* self.min_profit_percentage
    max_stake_percentage,   \* self.max_stake_percentage
    matches,                \* the list load_odds_from_file returned
    pc,                     \* position in run_analysis
    idx,                    \* index of the next match of the running loop
    arbitrage_opps,         \* opportunities of calculate_arbitrage_opportunities
    value_opps,             \* opportunities of calculate_value_bets
    all_opportunities,      \* the list find_all_opportunities builds and sorts
    error,                  \* the exception that left find_all_opportunities
    calls,                  \* locals of the helper calls made so far
    displayed,              \* what display_opportunities printed
    report,                 \* the JSON document save_opportunities wrote
    driver,                 \* the scraper's self.driver
    started,                \* what start_driver returned to scrape_all_odds
    scraper_pc,             \* position in the scraper's main and scrape_all_odds
    all_odds,               \* the dict scrape_all_odds builds and returns
    visits,                 \* the bookmakers whose page was requested, in order
    consolidated_odds       \* the list consolidate_odds returned

vars == <<bankroll, min_profit_percentage, max_stake_percentage, matches, pc,
          idx, arbitrage_opps, value_opps, all_opportunities, error, calls,
          displayed, report, driver, started, scraper_pc, all_odds, visits,
          consolidated_odds>>

\* the state of the scraper
scraper == <<driver, started, scraper_pc, all_odds, visits, consolidated_odds>>

\* AFLSeleniumScraper.__init__: self.driver = None, nothing scraped yet
ScraperConstructed ==
    /\ driver = "None"
    /\ started = "None"
    /\ scraper_pc = "start_driver"
    /\ all_odds = <<>>
    /\ visits = <<>>
    /\ consolidated_odds = <<>>

\* the output of run_analysis
reported == <<displayed, report>>

config == <<bankroll, min_profit_percentage, max_stake_percentage, matches>>

NoError == [type |-> "none", fn |-> "none", match |-> 0]
Raised(type, fn, i) == [type |-> type, fn |-> fn, match |-> i]

\* self.max_stake_per_opportunity
max_stake_per_opportunity ==
    RMul(bankroll, RDiv(max_stake_percentage, Int2R(100)))

(***************************************************************************)
(* The arbitrage detector.  The locals of _calculate_arbitrage are the     *)
(* fields of a record l that the assignments of the function extend in     *)
(* source order.                                                           *)
(***************************************************************************)
\* home_prob = 1 / home_odds; away_prob = 1 / away_odds
arb_implied(l) ==
    l @@ [home_prob |-> RDiv(One, l.home_odds), away_prob |-> RDiv(One, l.away_odds)]

\* total_prob = home_prob + away_prob
arb_total_prob(l) == l @@ [total_prob |-> RAdd(l.home_prob, l.away_prob)]

\* `if total_prob >= 1.0: return None` negated: an arbitrage exists
arbitrage_exists_nonstrict(total_prob) == RLe(total_prob, One)
arbitrage_exists(total_prob) == RLt(total_prob, One)

\* total_stake = min(self.max_stake_per_opportunity, self.bankroll * 0.1)
arbitrage_total_stake_uncapped(max_stake) == max_stake
arbitrage_total_stake(max_stake) == RMin(max_stake, RMul(bankroll, R(1, 10)))

\* profit_percentage and total_stake
arb_profit_percentage(l) ==
    l @@ [profit_percentage |-> RMul(RSub(RDiv(One, l.total_prob), One), Int2R(100)),
          total_stake |-> arbitrage_total_stake(max_stake_per_opportunity)]

\* home_stake and away_stake
arbitrage_stakes_even(home_prob, away_prob, total_prob, total_stake) ==
    [home_stake |-> RDiv(total_stake, Int2R(2)),
     away_stake |-> RDiv(total_stake, Int2R(2))]
arbitrage_stakes(home_prob, away_prob, total_prob, total_stake) ==
    [home_stake |-> RMul(RDiv(home_prob, total_prob), total_stake),
     away_stake |-> RMul(RDiv(away_prob, total_prob), total_stake)]

arb_stakes(l) ==
    l @@ arbitrage_stakes(l.home_prob, l.away_prob, l.total_prob, l.total_stake)

\* home_return and away_return
arb_returns(l) ==
    l @@ [home_return |-> RMul(l.home_stake, l.home_odds),
          away_return |-> RMul(l.away_stake, l.away_odds)]

\* guaranteed_profit = min(home_return, away_return) - total_stake
arb_guaranteed_profit(l) ==
    l @@ [guaranteed_profit |->
            RSub(RMin(l.home_return, l.away_return), l.total_stake)]

\* roi = (guaranteed_profit / total_stake) * 100
arb_roi_on_bankroll(l) ==
    l @@ [roi |-> RMul(RDiv(l.guaranteed_profit, bankroll), Int2R(100))]
arb_roi(l) ==
    l @@ [roi |-> RMul(RDiv(l.guaranteed_profit, l.total_stake), Int2R(100))]

\* The dict literal {home_book: ..., away_book: ...}: of two equal keys the
\* later one stays.
stake_distribution_of(home_book, home_entry, away_book, away_entry) ==
    (away_book :> away_entry) @@ (home_book :> home_entry)

\* the BettingOpportunity the call returns
arb_opportunity(l) ==
    l @@ [returned |-> "BettingOpportunity",
          opp |-> [match |-> l.match, home_team |-> l.home_team,
                   away_team |-> l.away_team, opportunity_type |-> "arbitrage",
                   profit_percentage |-> l.profit_percentage,
                   stake_distribution |->
                       stake_distribution_of(
                           l.home_book,
                           [team |-> l.home_team, amount |-> round2(l.home_stake),
                            odds |-> l.home_odds,
                            potential_return |-> round2(l.home_return)],
                           l.away_book,
                           [team |-> l.away_team, amount |-> round2(l.away_stake),
                            odds |-> l.away_odds,
                            potential_return |-> round2(l.away_return)]),
                   total_stake |-> round2(l.total_stake),
                   guaranteed_profit |-> round2(l.guaranteed_profit),
                   roi |-> l.roi]]

\* from the test of total_prob to the return
arb_decide(l) ==
    IF ~arbitrage_exists(l.total_prob)
    THEN l @@ [returned |-> "None"]
    ELSE arb_opportunity(arb_roi(arb_guaranteed_profit(arb_returns(
             arb_stakes(arb_profit_percentage(l))))))

\* The locals of one call, with the BettingOpportunity it returns in opp
\* (returned = "None" when it returns None).  Called with positive odds only.
_calculate_arbitrage(home_odds, away_odds, home_book, away_book, home_team, away_team, match_name) ==
    arb_decide(arb_total_prob(arb_implied(
        [fn |-> "_calculate_arbitrage", match |-> match_name,
         home_odds |-> home_odds, away_odds |-> away_odds,
         home_book |-> home_book, away_book |-> away_book,
         home_team |-> home_team, away_team |-> away_team])))

\* The loop over match['odds'].items() that keeps the best price of each
\* side; book 0 is None.  A missing key ends it with a KeyError.
BestInit == [err |-> "none", best_home_odds |-> Zero, best_away_odds |-> Zero,
             best_home_book |-> 0, best_away_book |-> 0]

best_home_latest(q, k, acc) ==
    [acc EXCEPT !.best_home_odds = q.home, !.best_home_book = k]
best_home(q, k, acc) ==
    IF RGt(q.home, acc.best_home_odds)
    THEN [acc EXCEPT !.best_home_odds = q.home, !.best_home_book = k]
    ELSE acc

best_away(q, k, acc) ==
    IF RGt(q.away, acc.best_away_odds)
    THEN [acc EXCEPT !.best_away_odds = q.away, !.best_away_book = k]
    ELSE acc

RECURSIVE best_odds(_, _, _)
best_odds(odds, k, acc) ==
    IF k > Len(odds) THEN acc
    ELSE IF "home" \notin DOMAIN odds[k] THEN [acc EXCEPT !.err = "KeyError"]
    ELSE IF "away" \notin DOMAIN odds[k]
    THEN [best_home(odds[k], k, acc) EXCEPT !.err = "KeyError"]
    ELSE best_odds(odds, k + 1, best_away(odds[k], k, best_home(odds[k], k, acc)))

\* `if arbitrage_calc and arbitrage_calc.profit_percentage >= ...: append`
arbitrage_filter_none(arbitrage_calc) ==
    IF arbitrage_calc.returned # "None"
    THEN [err |-> "none", opps |-> <<arbitrage_calc.opp>>, calls |-> <<arbitrage_calc>>]
    ELSE [err |-> "none", opps |-> <<>>, calls |-> <<arbitrage_calc>>]
arbitrage_filter(arbitrage_calc) ==
    IF arbitrage_calc.returned # "None"
       /\ RGe(arbitrage_calc.opp.profit_percentage, min_profit_percentage)
    THEN [err |-> "none", opps |-> <<arbitrage_calc.opp>>, calls |-> <<arbitrage_calc>>]
    ELSE [err |-> "none", opps |-> <<>>, calls |-> <<arbitrage_calc>>]

\* `if best_home_odds > 0 and best_away_odds > 0:` and what it guards
arbitrage_of_best(i, best) ==
    IF best.err # "none"
    THEN [err |-> best.err, opps |-> <<>>, calls |-> <<>>]
    ELSE IF RGt(best.best_home_odds, Zero) /\ RGt(best.best_away_odds, Zero)
    THEN arbitrage_filter(
             _calculate_arbitrage(best.best_home_odds, best.best_away_odds,
                                  best.best_home_book, best.best_away_book,
                                  matches[i].home_team, matches[i].away_team, i))
    ELSE [err |-> "none", opps |-> <<>>, calls |-> <<>>]

\* One iteration of `for match in matches` of
\* calculate_arbitrage_opportunities, on the match at index i:
\* [err, opps (the opportunities it appends), calls (the helper calls it makes)]
arbitrage_match(i) ==
    IF "home_team" \notin DOMAIN matches[i] \/ "away_team" \notin DOMAIN matches[i]
       \/ "odds" \notin DOMAIN matches[i]
    THEN [err |-> "KeyError", opps |-> <<>>, calls |-> <<>>]
    ELSE arbitrage_of_best(i, best_odds(matches[i].odds, 1, BestInit))

(***************************************************************************)
(* The fair-odds estimator.                                                *)
(***************************************************************************)
RECURSIVE RSum(_)
RSum(s) == IF s = <<>> THEN Zero ELSE RAdd(s[1], RSum(Tail(s)))

\* `if odds['home'] > 0 and odds['away'] > 0`; the right operand is read only
\* when the left one holds
quote_valid_home_only(q) == RGt(q.home, Zero)
quote_valid(q) == RGt(q.home, Zero) /\ RGt(q.away, Zero)

FairInit == [err |-> "none", home_probs |-> <<>>, away_probs |-> <<>>]

\* the two appends, with total_prob = home_prob + away_prob
fair_normalize(acc, home_prob, away_prob, total_prob) ==
    IF total_prob = Zero
    THEN [acc EXCEPT !.err = "ZeroDivisionError"]
    ELSE [acc EXCEPT !.home_probs = Append(@, RDiv(home_prob, total_prob)),
                     !.away_probs = Append(@, RDiv(away_prob, total_prob))]

fair_append_swapped(acc, home_prob, away_prob) ==
    fair_normalize(acc, away_prob, home_prob, RAdd(home_prob, away_prob))
fair_append(acc, home_prob, away_prob) ==
    fair_normalize(acc, home_prob, away_prob, RAdd(home_prob, away_prob))

\* the body of the loop for one quote
fair_quote(q, acc) ==
    IF "home" \notin DOMAIN q THEN [acc EXCEPT !.err = "KeyError"]
    ELSE IF RGt(q.home, Zero) /\ "away" \notin DOMAIN q
    THEN [acc EXCEPT !.err = "KeyError"]
    ELSE IF ~quote_valid(q) THEN acc
    ELSE IF q.home = Zero \/ q.away = Zero
    THEN [acc EXCEPT !.err = "ZeroDivisionError"]
    ELSE fair_append(acc, RDiv(One, q.home), RDiv(One, q.away))

\* The loop that fills home_probs and away_probs; an exception ends it.
RECURSIVE fair_loop(_, _, _)
fair_loop(bookmaker_odds, k, acc) ==
    IF k > Len(bookmaker_odds) \/ acc.err # "none" THEN acc
    ELSE fair_loop(bookmaker_odds, k + 1, fair_quote(bookmaker_odds[k], acc))

\* `if not home_probs: return 0, 0`, and the two averages
fair_average_unguarded(l) ==
    IF l.err # "none" THEN [err |-> l.err, probs |-> <<Zero, Zero>>]
    ELSE IF l.home_probs = <<>>
    THEN [err |-> "ZeroDivisionError", probs |-> <<Zero, Zero>>]
    ELSE [err |-> "none",
          probs |-> << RDiv(RSum(l.home_probs), Int2R(Len(l.home_probs))),
                       RDiv(RSum(l.away_probs), Int2R(Len(l.away_probs))) >>]
fair_average(l) ==
    IF l.err # "none" THEN [err |-> l.err, probs |-> <<Zero, Zero>>]
    ELSE IF l.home_probs = <<>> THEN [err |-> "none", probs |-> <<Zero, Zero>>]
    ELSE [err |-> "none",
          probs |-> << RDiv(RSum(l.home_probs), Int2R(Len(l.home_probs))),
                       RDiv(RSum(l.away_probs), Int2R(Len(l.away_probs))) >>]

\* [err, probs]: probs is the pair the call returns
_calculate_fair_probabilities(bookmaker_odds) ==
    fair_average(fair_loop(bookmaker_odds, 1, FairInit))

(***************************************************************************)
(* The value-bet detector.  The locals of _create_value_bet are the fields *)
(* of a record l, as for _calculate_arbitrage.                             *)
(***************************************************************************)
\* edge = value_percentage / 100
vb_edge(l) == l @@ [edge |-> RDiv(l.value_percentage, Int2R(100))]

\* kelly_fraction = edge / (odds - 1), for odds # 1
vb_kelly_fraction(l) == l @@ [kelly_fraction |-> RDiv(l.edge, RSub(l.odds, One))]

\* conservative_kelly = kelly_fraction * 0.25
vb_full_kelly(l) == l @@ [conservative_kelly |-> l.kelly_fraction]
vb_conservative_kelly(l) ==
    l @@ [conservative_kelly |-> RMul(l.kelly_fraction, R(1, 4))]

\* stake = min(conservative_kelly * bankroll, max_stake_per_opportunity,
\*             bankroll * 0.05)
vb_stake(l) ==
    l @@ [stake |-> RMin(RMin(RMul(l.conservative_kelly, bankroll),
                              max_stake_per_opportunity),
                         RMul(bankroll, R(1, 20)))]

\* potential_profit = stake * (odds - 1)
vb_potential_profit_gross(l) == l @@ [potential_profit |-> RMul(l.stake, l.odds)]
vb_potential_profit(l) ==
    l @@ [potential_profit |-> RMul(l.stake, RSub(l.odds, One))]

\* roi = (potential_profit / stake) * 100, for stake # 0
vb_roi(l) == l @@ [roi |-> RMul(RDiv(l.potential_profit, l.stake), Int2R(100))]

\* team_name and the BettingOpportunity the call returns
vb_opportunity(l) ==
    l @@ [raised |-> "none",
          opp |-> [match |-> l.match, home_team |-> l.home_team,
                   away_team |-> l.away_team, opportunity_type |-> "value_bet",
                   profit_percentage |-> l.value_percentage,
                   stake_distribution |->
                       (l.bookmaker :>
                          [team |-> IF l.team_side = "home"
                                    THEN l.home_team ELSE l.away_team,
                           amount |-> round2(l.stake), odds |-> l.odds,
                           potential_return |-> round2(RMul(l.stake, l.odds))]),
                   total_stake |-> round2(l.stake),
                   guaranteed_profit |-> round2(l.potential_profit),
                   roi |-> l.roi]]

\* from the stake on; the division by a zero stake raises
vb_from_stake(l) ==
    IF l.stake = Zero
    THEN l @@ [raised |-> "ZeroDivisionError"]
    ELSE vb_opportunity(vb_roi(vb_potential_profit(l)))

\* from the edge on; the division by odds - 1 = 0 raises
vb_from_edge(l) ==
    IF l.odds = One
    THEN l @@ [raised |-> "ZeroDivisionError"]
    ELSE vb_from_stake(vb_stake(vb_conservative_kelly(vb_kelly_fraction(l))))

\* The locals of one call, with the BettingOpportunity it returns in opp
\* (raised names the exception when the call raises).
_create_value_bet(match_name, home_team, away_team, team_side, odds, bookmaker, value_percentage) ==
    vb_from_edge(vb_edge(
        [fn |-> "_create_value_bet", match |-> match_name,
         home_team |-> home_team, away_team |-> away_team,
         team_side |-> team_side, odds |-> odds, bookmaker |-> bookmaker,
         value_percentage |-> value_percentage]))

\* `if value_percentage >= self.min_profit_percentage:`
value_threshold_none(value_percentage) ==
    [outcome |-> "emit", value_percentage |-> value_percentage]
value_threshold(value_percentage) ==
    IF RGe(value_percentage, min_profit_percentage)
    THEN [outcome |-> "emit", value_percentage |-> value_percentage]
    ELSE [outcome |-> "skip", value_percentage |-> value_percentage]

\* The test of one side of one quote against the fair line:
\* "skip", "emit" (with value_percentage) or "ZeroDivisionError".
value_side(quoted, fair_odds) ==
    IF ~RGt(quoted, RMul(fair_odds, R(105, 100)))
    THEN [outcome |-> "skip", value_percentage |-> Zero]
    ELSE IF fair_odds = Zero
    THEN [outcome |-> "ZeroDivisionError", value_percentage |-> Zero]
    ELSE value_threshold(RMul(RSub(RDiv(quoted, fair_odds), One), Int2R(100)))

\* what a call of _create_value_bet leaves: [err, calls]
value_created(value_bet) == [err |-> value_bet.raised, calls |-> <<value_bet>>]

\* what the test v of one side leads to
value_emit(i, k, side, quoted, v) ==
    IF v.outcome = "ZeroDivisionError"
    THEN [err |-> "ZeroDivisionError", calls |-> <<>>]
    ELSE IF v.outcome = "skip"
    THEN [err |-> "none", calls |-> <<>>]
    ELSE value_created(
             _create_value_bet(i, matches[i].home_team, matches[i].away_team,
                               side, quoted, k, v.value_percentage))

\* the check of one side of the quote of bookmaker k of the match at index i
value_check(i, k, side, quoted, fair_odds) ==
    value_emit(i, k, side, quoted, value_side(quoted, fair_odds))

\* acc after a step that left r
value_add(acc, r) == [err |-> r.err, calls |-> acc.calls \o r.calls]

\* `# Check home team value`, for quote k of the match at index i
value_quote_home(i, k, fair_home_odds, acc) ==
    IF "home" \notin DOMAIN matches[i].odds[k]
    THEN [acc EXCEPT !.err = "KeyError"]
    ELSE value_add(acc, value_check(i, k, "home", matches[i].odds[k].home,
                                    fair_home_odds))

\* `# Check away team value`, reached when the home side did not raise
value_quote_away(i, k, fair_away_odds, acc) ==
    IF acc.err # "none" THEN acc
    ELSE IF "away" \notin DOMAIN matches[i].odds[k]
    THEN [acc EXCEPT !.err = "KeyError"]
    ELSE value_add(acc, value_check(i, k, "away", matches[i].odds[k].away,
                                    fair_away_odds))

\* The loop `for bookmaker, odds in match['odds'].items()` of
\* calculate_value_bets on the match at index i, from quote k on; an
\* exception ends it.
value_loop_first_quote(i, k, fair_home_odds, fair_away_odds, acc) ==
    IF k > Len(matches[i].odds) \/ acc.err # "none" THEN acc
    ELSE value_quote_away(i, k, fair_away_odds,
             value_quote_home(i, k, fair_home_odds, acc))
RECURSIVE value_loop(_, _, _, _, _)
value_loop(i, k, fair_home_odds, fair_away_odds, acc) ==
    IF k > Len(matches[i].odds) \/ acc.err # "none" THEN acc
    ELSE value_loop(i, k + 1, fair_home_odds, fair_away_odds,
             value_quote_away(i, k, fair_away_odds,
                 value_quote_home(i, k, fair_home_odds, acc)))

\* fair_home_odds = 1 / fair_home_prob if fair_home_prob > 0 else 0
fair_odds_of(fair_prob) ==
    IF RGt(fair_prob, Zero) THEN RDiv(One, fair_prob) ELSE Zero

\* the match at index i, once its fair probabilities are computed
value_with_fair(i, fair) ==
    IF fair.err # "none"
    THEN [err |-> fair.err,
          calls |-> <<[fn |-> "_calculate_fair_probabilities", match |-> i,
                       err |-> fair.err, probs |-> fair.probs]>>]
    ELSE value_loop(i, 1, fair_odds_of(fair.probs[1]), fair_odds_of(fair.probs[2]),
                    [err |-> "none",
                     calls |-> <<[fn |-> "_calculate_fair_probabilities",
                                  match |-> i, err |-> fair.err,
                                  probs |-> fair.probs]>>])

\* One iteration of `for match in matches` of calculate_value_bets, on the
\* match at index i: [err, calls]; the opportunities it appends are the opp
\* of its _create_value_bet calls, in call order.
value_match(i) ==
    IF "home_team" \notin DOMAIN matches[i] \/ "away_team" \notin DOMAIN matches[i]
       \/ "odds" \notin DOMAIN matches[i]
    THEN [err |-> "KeyError", calls |-> <<>>]
    ELSE value_with_fair(i, _calculate_fair_probabilities(matches[i].odds))

\* the opportunities a sequence of helper calls appended
RECURSIVE opps_of(_)
opps_of(cs) ==
    IF cs = <<>> THEN <<>>
    ELSE IF cs[1].fn = "_create_value_bet" /\ cs[1].raised = "none"
         THEN <<cs[1].opp>> \o opps_of(Tail(cs))
         ELSE opps_of(Tail(cs))

(***************************************************************************)
(* The ranker: all_opportunities.sort(key=lambda x: x.roi, reverse=True).  *)
(* list.sort is stable, also with reverse=True: elements with equal keys   *)
(* keep their order.                                                       *)
(***************************************************************************)
\* x put into the descending sequence s, behind the elements that do not
\* rank below it
RECURSIVE insert_before_ties(_, _)
insert_before_ties(x, s) ==
    IF s = <<>> THEN <<x>>
    ELSE IF RGt(s[1].roi, x.roi) THEN <<s[1]>> \o insert_before_ties(x, Tail(s))
    ELSE <<x>> \o s
RECURSIVE insert_by_roi(_, _)
insert_by_roi(x, s) ==
    IF s = <<>> THEN <<x>>
    ELSE IF RGe(s[1].roi, x.roi) THEN <<s[1]>> \o insert_by_roi(x, Tail(s))
    ELSE <<x>> \o s

RECURSIVE sort_from(_, _)
sort_from(s, acc) ==
    IF s = <<>> THEN acc ELSE sort_from(Tail(s), insert_by_roi(s[1], acc))

sort_by_roi(s) == sort_from(s, <<>>)

(***************************************************************************)
(* The reporter: display_opportunities and save_opportunities.             *)
(***************************************************************************)
\* f"{x:.1f}" and f"{x:.2f}": the nearest tenth and hundredth
format_1f(x) ==
    R(RoundHalfEven((x[1] * 10) \div x[2], (x[1] * 10) % x[2], x[2]), 10)
format_2f(x) == round2(x)

\* sum(opp.guaranteed_profit for opp in opportunities)
sum_first_guaranteed_profit(opportunities) ==
    IF opportunities = <<>> THEN Zero ELSE opportunities[1].guaranteed_profit
RECURSIVE sum_guaranteed_profit(_)
sum_guaranteed_profit(opportunities) ==
    IF opportunities = <<>> THEN Zero
    ELSE RAdd(opportunities[1].guaranteed_profit,
              sum_guaranteed_profit(Tail(opportunities)))

\* sum(1 for opp in opportunities if opp.opportunity_type == type)
RECURSIVE count_of_type(_, _)
count_of_type(opportunities, type) ==
    IF opportunities = <<>> THEN 0
    ELSE (IF opportunities[1].opportunity_type = type THEN 1 ELSE 0)
         + count_of_type(Tail(opportunities), type)

\* the lines of _display_single_opportunity for one stake entry
display_bet(bet_info) ==
    [amount |-> bet_info.amount, team |-> bet_info.team,
     odds |-> format_2f(bet_info.odds),
     potential_return |-> bet_info.potential_return]

\* what _display_single_opportunity prints for opp under the number index
_display_single_opportunity(index, opp) ==
    [index |-> index,
     type_name |-> IF opp.opportunity_type = "arbitrage"
                   THEN "ARBITRAGE" ELSE "VALUE BET",
     match |-> opp.match,
     total_stake |-> opp.total_stake,
     roi |-> format_1f(opp.roi),
     profit |-> opp.guaranteed_profit,
     instructions |-> [b \in DOMAIN opp.stake_distribution |->
                          display_bet(opp.stake_distribution[b])]]

NothingDisplayed == [kind |-> "nothing"]

\* what display_opportunities prints
display_opportunities(opportunities) ==
    IF opportunities = <<>>
    THEN [kind |-> "NO PROFITABLE OPPORTUNITIES FOUND"]
    ELSE [kind |-> "FOUND",
          found |-> Len(opportunities),
          arbitrage_count |-> count_of_type(opportunities, "arbitrage"),
          value_count |-> count_of_type(opportunities, "value_bet"),
          total_potential_profit |->
              format_2f(sum_guaranteed_profit(opportunities)),
          shown |-> [n \in DOMAIN opportunities |->
                        _display_single_opportunity(n, opportunities[n])]]

\* the dict save_opportunities appends to opportunities_data for opp
opportunity_data(opp) ==
    [match |-> opp.match, home_team |-> opp.home_team,
     away_team |-> opp.away_team, opportunity_type |-> opp.opportunity_type,
     profit_percentage |-> opp.profit_percentage,
     stake_distribution |-> opp.stake_distribution,
     total_stake |-> opp.total_stake,
     guaranteed_profit |-> opp.guaranteed_profit, roi |-> opp.roi]

NoReport == [written |-> FALSE]

\* the document save_opportunities dumps, without its timestamp
save_opportunities(opportunities) ==
    [written |-> TRUE,
     bankroll |-> bankroll,
     min_profit_percentage |-> min_profit_percentage,
     max_stake_percentage |-> max_stake_percentage,
     total_opportunities |-> Len(opportunities),
     total_potential_profit |-> sum_guaranteed_profit(opportunities),
     opportunities |-> [n \in DOMAIN opportunities |->
                           opportunity_data(opportunities[n])]]

(***************************************************************************)
(* run_analysis as a state machine: find_all_opportunities, then the       *)
(* display, then the save.                                                 *)
(***************************************************************************)
Init ==
    /\ \E c \in Configurations :
          /\ bankroll = c[1]
          /\ min_profit_percentage = c[2]
          /\ max_stake_percentage = c[3]
    /\ \E ks \in QuoteCounts : matches \in Datasets(ks)
    /\ pc = "load"
    /\ idx = 1
    /\ arbitrage_opps = <<>>
    /\ value_opps = <<>>
    /\ all_opportunities = <<>>
    /\ error = NoError
    /\ calls = <<>>
    /\ displayed = NothingDisplayed
    /\ report = NoReport
    /\ ScraperConstructed

\* `if not matches: return []`
LoadEmpty ==
    /\ pc = "load"
    /\ matches = <<>>
    /\ pc' = "done"
    /\ UNCHANGED <<scraper, config, reported, idx, arbitrage_opps, value_opps, all_opportunities,
                   error, calls>>

\* the call of calculate_arbitrage_opportunities
LoadMatches ==
    /\ pc = "load"
    /\ matches # <<>>
    /\ pc' = "arbitrage"
    /\ idx' = 1
    /\ UNCHANGED <<scraper, config, reported, arbitrage_opps, value_opps, all_opportunities,
                   error, calls>>

\* a match of the arbitrage loop that left r without raising
ArbitrageContinue(r) ==
    /\ r.err = "none"
    /\ arbitrage_opps' = arbitrage_opps \o r.opps
    /\ calls' = calls \o r.calls
    /\ idx' = idx + 1
    /\ UNCHANGED <<scraper, config, reported, pc, value_opps, all_opportunities, error>>

\* a match of the arbitrage loop that raised; nothing catches it
ArbitrageAbort(r) ==
    /\ r.err # "none"
    /\ error' = Raised(r.err, "calculate_arbitrage_opportunities", idx)
    /\ calls' = calls \o r.calls
    /\ pc' = "raised"
    /\ UNCHANGED <<scraper, config, reported, idx, arbitrage_opps, value_opps, all_opportunities>>

\* one match of the loop of calculate_arbitrage_opportunities
ArbitrageStep ==
    /\ pc = "arbitrage"
    /\ idx <= Len(matches)
    /\ ArbitrageContinue(arbitrage_match(idx))

\* a match of that loop raises
ArbitrageRaise ==
    /\ pc = "arbitrage"
    /\ idx <= Len(matches)
    /\ ArbitrageAbort(arbitrage_match(idx))

\* calculate_arbitrage_opportunities returns; all_opportunities.extend
ArbitrageReturn ==
    /\ pc = "arbitrage"
    /\ idx > Len(matches)
    /\ all_opportunities' = all_opportunities \o arbitrage_opps
    /\ pc' = "value"
    /\ idx' = 1
    /\ UNCHANGED <<scraper, config, reported, arbitrage_opps, value_opps, error, calls>>

\* a match of the value loop that left r without raising
ValueContinue(r) ==
    /\ r.err = "none"
    /\ value_opps' = value_opps \o opps_of(r.calls)
    /\ calls' = calls \o r.calls
    /\ idx' = idx + 1
    /\ UNCHANGED <<scraper, config, reported, pc, arbitrage_opps, all_opportunities, error>>

\* a match of the value loop that raised; nothing catches it
ValueAbort(r) ==
    /\ r.err # "none"
    /\ error' = Raised(r.err, "calculate_value_bets", idx)
    /\ calls' = calls \o r.calls
    /\ pc' = "raised"
    /\ UNCHANGED <<scraper, config, reported, idx, arbitrage_opps, value_opps, all_opportunities>>

\* one match of the loop of calculate_value_bets
ValueStep ==
    /\ pc = "value"
    /\ idx <= Len(matches)
    /\ ValueContinue(value_match(idx))

\* a match of that loop raises
ValueRaise ==
    /\ pc = "value"
    /\ idx <= Len(matches)
    /\ ValueAbort(value_match(idx))

\* calculate_value_bets returns; all_opportunities.extend
ValueReturn ==
    /\ pc = "value"
    /\ idx > Len(matches)
    /\ all_opportunities' = all_opportunities \o value_opps
    /\ pc' = "sort"
    /\ UNCHANGED <<scraper, config, reported, idx, arbitrage_opps, value_opps, error, calls>>

\* the sort, and the return of the sorted list
SortAndReturn ==
    /\ pc = "sort"
    /\ all_opportunities' = sort_by_roi(all_opportunities)
    /\ pc' = "done"
    /\ UNCHANGED <<scraper, config, reported, idx, arbitrage_opps, value_opps, error, calls>>

\* self.display_opportunities(opportunities)
DisplayOpportunities ==
    /\ pc = "done"
    /\ displayed' = display_opportunities(all_opportunities)
    /\ pc' = "display"
    /\ UNCHANGED <<scraper, config, idx, arbitrage_opps, value_opps, all_opportunities,
                   error, calls, report>>

\* `if opportunities: self.save_opportunities(opportunities)`, and the return
SaveOpportunities ==
    /\ pc = "display"
    /\ all_opportunities # <<>>
    /\ report' = save_opportunities(all_opportunities)
    /\ pc' = "returned"
    /\ UNCHANGED <<scraper, config, idx, arbitrage_opps, value_opps, all_opportunities,
                   error, calls, displayed>>

\* the return of run_analysis when there is nothing to save
ReturnWithoutSave ==
    /\ pc = "display"
    /\ all_opportunities = <<>>
    /\ pc' = "returned"
    /\ UNCHANGED <<scraper, config, idx, arbitrage_opps, value_opps, all_opportunities,
                   error, calls, reported>>

Next ==
    \/ LoadEmpty
    \/ LoadMatches
    \/ ArbitrageStep
    \/ ArbitrageRaise
    \/ ArbitrageReturn
    \/ ValueStep
    \/ ValueRaise
    \/ ValueReturn
    \/ SortAndReturn
    \/ DisplayOpportunities
    \/ SaveOpportunities
    \/ ReturnWithoutSave

Spec == Init /\ [][Next]_vars

(***************************************************************************)
(* Vocabulary of the properties.                                           *)
(***************************************************************************)
Range(s) == { s[k] : k \in DOMAIN s }

ArbitrageCalls ==
    { c \in Range(calls) : c.fn = "_calculate_arbitrage" }
FairCalls ==
    { c \in Range(calls) : c.fn = "_calculate_fair_probabilities" /\ c.err = "none" }

\* every opportunity a detector has emitted so far
Emitted == Range(arbitrage_opps) \cup Range(value_opps) \cup Range(all_opportunities)
EmittedArbitrage == { o \in Emitted : o.opportunity_type = "arbitrage" }
EmittedValueBets == { o \in Emitted : o.opportunity_type = "value_bet" }

\* 1/h + 1/a, for non-zero h and a
Implied(h, a) == RAdd(RDiv(One, h), RDiv(One, a))

\* the quote has both prices and both are positive
Positive(q) ==
    /\ "home" \in DOMAIN q /\ "away" \in DOMAIN q
    /\ RGt(q.home, Zero) /\ RGt(q.away, Zero)

\* the match entry and all its quotes have every field
WellFormed(m) ==
    /\ DOMAIN m = {"home_team", "away_team", "odds"}
    /\ \A k \in DOMAIN m.odds : DOMAIN m.odds[k] = {"home", "away"}

\* h is the highest price of the side over the quotes of a well-formed match
Highest(m, side, h) ==
    /\ \E k \in DOMAIN m.odds : m.odds[k][side] = h
    /\ \A k \in DOMAIN m.odds : RLe(m.odds[k][side], h)

\* the side ("home" or "away") a stake entry of match m is on
SideOf(m, entry) == IF entry.team = m.home_team THEN "home" ELSE "away"

\* C1: every call of _calculate_arbitrage with 1/h + 1/a < 1 returns an
\* opportunity whose unrounded stakes pay out the same on both outcomes
\* (home_stake * h = away_stake * a) and whose unrounded guaranteed profit is
\* home_stake * h - total_stake.
C1_EqualPayout ==
    \A c \in ArbitrageCalls :
        RLt(Implied(c.home_odds, c.away_odds), One) =>
            /\ c.returned = "BettingOpportunity"
            /\ RMul(c.home_stake, c.home_odds) = RMul(c.away_stake, c.away_odds)
            /\ c.guaranteed_profit
                 = RSub(RMul(c.home_stake, c.home_odds), c.total_stake)

\* an arbitrage found across prices that differ, so that the stakes differ
C1_Witness ==
    \E c \in ArbitrageCalls :
        /\ c.returned = "BettingOpportunity"
        /\ c.home_odds # c.away_odds
        /\ c.home_stake # c.away_stake
        /\ RGt(c.guaranteed_profit, Zero)

\* C2: no emitted arbitrage opportunity belongs to a match whose best home
\* odds h and best away odds a have 1/h + 1/a >= 1.
C2_NoArbitrageAtOrAboveOne ==
    \A o \in EmittedArbitrage :
        LET m == matches[o.match]
        IN  WellFormed(m) =>
              \A h \in { m.odds[k].home : k \in DOMAIN m.odds },
                 a \in { m.odds[k].away : k \in DOMAIN m.odds } :
                  (Highest(m, "home", h) /\ Highest(m, "away", a)
                     /\ RGt(h, Zero) /\ RGt(a, Zero))
                  => ~RGe(Implied(h, a), One)

\* the arbitrage loop is through with a match whose best prices give exactly
\* 1/h + 1/a = 1, under the threshold 0, and has emitted nothing for it
C2_Witness ==
    /\ pc = "value"
    /\ min_profit_percentage = Zero
    /\ \E i \in DOMAIN matches :
         /\ WellFormed(matches[i])
         /\ \E h \in { matches[i].odds[k].home : k \in DOMAIN matches[i].odds },
               a \in { matches[i].odds[k].away : k \in DOMAIN matches[i].odds } :
              /\ Highest(matches[i], "home", h) /\ Highest(matches[i], "away", a)
              /\ RGt(h, Zero) /\ RGt(a, Zero)
              /\ Implied(h, a) = One
         /\ \A o \in EmittedArbitrage : o.match # i

\* the pair of fair odds calculate_value_bets derives for a match entry
FairOdds(m) ==
    << fair_odds_of(_calculate_fair_probabilities(m.odds).probs[1]),
       fair_odds_of(_calculate_fair_probabilities(m.odds).probs[2]) >>
FairOddsOfSide(m, side) ==
    fair_odds_of(_calculate_fair_probabilities(m.odds).probs[
                     IF side = "home" THEN 1 ELSE 2])

\* the stake entries of an opportunity
Entries(o) == { o.stake_distribution[b] : b \in DOMAIN o.stake_distribution }

\* the value bet o quotes a price strictly above 1.05 times the fair odds of
\* its side, and its profit_percentage is (quoted / fair - 1) * 100 and is at
\* least min_profit_percentage
ClearsBothTests(o, quoted, fair) ==
    /\ RGt(quoted, RMul(fair, R(105, 100)))
    /\ o.profit_percentage = RMul(RSub(RDiv(quoted, fair), One), Int2R(100))
    /\ RGe(o.profit_percentage, min_profit_percentage)

\* C3: every emitted value bet quotes odds strictly above 1.05 times the
\* fair odds of its side, and its profit_percentage is the value percentage
\* (quoted / fair - 1) * 100 and is at least min_profit_percentage.
C3_ValueBetsClearBothTests ==
    \A o \in EmittedValueBets :
        \A b \in DOMAIN o.stake_distribution :
            /\ o.stake_distribution[b].odds
                 = matches[o.match].odds[b][SideOf(matches[o.match], o.stake_distribution[b])]
            /\ ClearsBothTests(o, o.stake_distribution[b].odds,
                               FairOddsOfSide(matches[o.match],
                                   SideOf(matches[o.match], o.stake_distribution[b])))

\* under the threshold 22 a value bet is emitted, and a side that clears the
\* 5% buffer with a value percentage below 22 is left out
C3_Witness ==
    /\ min_profit_percentage = Int2R(22)
    /\ pc = "sort"
    /\ EmittedValueBets # {}
    /\ \E i \in DOMAIN matches : \E k \in DOMAIN matches[i].odds :
         /\ RGt(matches[i].odds[k].home, RMul(FairOdds(matches[i])[1], R(105, 100)))
         /\ \A o \in EmittedValueBets :
              ~(o.match = i /\ k \in DOMAIN o.stake_distribution
                /\ o.stake_distribution[k].team = matches[i].home_team)

\* C4: every stake amount of every emitted opportunity is at most
\* bankroll * max_stake_percentage / 100, and for a value bet also at most
\* bankroll * 0.05.
C4_AmountsWithinCaps ==
    \A o \in Emitted : \A e \in Entries(o) :
        /\ RLe(e.amount, max_stake_per_opportunity)
        /\ o.opportunity_type = "value_bet"
             => RLe(e.amount, RMul(bankroll, R(1, 20)))

\* C5: the list find_all_opportunities returns is in non-increasing order of
\* roi, and the opportunities of each roi appear in it in the order they have
\* in the arbitrage opportunities followed by the value bets.
C5_SortedAndStable ==
    pc = "done" =>
        /\ Len(all_opportunities) = Len(arbitrage_opps \o value_opps)
        /\ \A j \in 1..(Len(all_opportunities) - 1) :
               RGe(all_opportunities[j].roi, all_opportunities[j + 1].roi)
        /\ \A x \in Range(arbitrage_opps \o value_opps) :
               LET SameRoi(o) == o.roi = x.roi
               IN  SelectSeq(all_opportunities, SameRoi)
                     = SelectSeq(arbitrage_opps \o value_opps, SameRoi)

\* the sort has moved an opportunity, and two different opportunities of
\* one roi are in the returned list
C5_Witness ==
    /\ pc = "done"
    /\ all_opportunities # arbitrage_opps \o value_opps
    /\ \E j \in DOMAIN all_opportunities : \E k \in DOMAIN all_opportunities :
         /\ j < k
         /\ all_opportunities[j].roi = all_opportunities[k].roi
         /\ all_opportunities[j] # all_opportunities[k]

\* C6: every emitted arbitrage opportunity has exactly two stake entries and
\* every emitted value bet exactly one.
C6_StakeEntryCounts ==
    \A o \in Emitted :
        Cardinality(DOMAIN o.stake_distribution)
          = IF o.opportunity_type = "arbitrage" THEN 2 ELSE 1

\* C7: a match whose fair probabilities come out as (0, 0) gets no value bet
\* and raises nothing in calculate_value_bets.
C7_NoFairEstimateSkipsMatch ==
    \A c \in FairCalls :
        c.probs = <<Zero, Zero>> =>
            /\ \A o \in EmittedValueBets : o.match # c.match
            /\ ~(error.fn = "calculate_value_bets" /\ error.match = c.match)

\* C8: no emitted opportunity takes a price from a quote in which either
\* odds value is <= 0.
C8_NonPositiveQuoteSkipped ==
    \A o \in Emitted : \A b \in DOMAIN o.stake_distribution :
        Positive(matches[o.match].odds[b])

\* C9: no KeyError of a match entry that lacks a field leaves the detectors.
C9_MissingFieldSkipped ==
    error.type # "KeyError"

\* the quotes of an odds mapping with both prices positive
ValidQuotes(odds) == { k \in DOMAIN odds : Positive(odds[k]) }

\* the sum over the quotes in S of the de-margined probability of the side:
\* (1/h) / (1/h + 1/a) is a / (h + a) for the home side, h / (h + a) for away
RECURSIVE DemarginedSum(_, _, _)
DemarginedSum(odds, S, side) ==
    IF S = {} THEN Zero
    ELSE LET k == CHOOSE j \in S : TRUE
         IN  RAdd(RDiv(IF side = "home" THEN odds[k].away ELSE odds[k].home,
                       RAdd(odds[k].home, odds[k].away)),
                  DemarginedSum(odds, S \ {k}, side))

\* probs are the means, over the quotes V of the odds mapping, of the
\* de-margined probabilities; the two sum to 1 and lie strictly between 0
\* and 1
MeansOver(probs, odds, V) ==
    /\ RMul(probs[1], Int2R(Cardinality(V))) = DemarginedSum(odds, V, "home")
    /\ RMul(probs[2], Int2R(Cardinality(V))) = DemarginedSum(odds, V, "away")
    /\ RAdd(probs[1], probs[2]) = One
    /\ RGt(probs[1], Zero) /\ RLt(probs[1], One)
    /\ RGt(probs[2], Zero) /\ RLt(probs[2], One)

\* C10: for an odds mapping with at least one quote of two positive prices,
\* _calculate_fair_probabilities returns the means of the de-margined
\* probabilities over exactly those quotes; the two sum to 1 and lie strictly
\* between 0 and 1.
C10_FairProbabilities ==
    \A c \in FairCalls :
        ValidQuotes(matches[c.match].odds) # {} =>
            MeansOver(c.probs, matches[c.match].odds,
                      ValidQuotes(matches[c.match].odds))

\* the estimator has averaged two quotes that imply different probabilities
C10_Witness ==
    \E c \in FairCalls :
        /\ Cardinality(ValidQuotes(matches[c.match].odds)) = 2
        /\ matches[c.match].odds[1] # matches[c.match].odds[2]
        /\ c.probs[1] # R(1, 2)

\* calculate_arbitrage_opportunities has just returned arbitrage_opps
ArbitrageReturned == pc = "value" /\ idx = 1

\* calculate_value_bets has just returned value_opps
ValueReturned == pc = "sort"

\* C11: when calculate_arbitrage_opportunities returns, every
\* _calculate_arbitrage call that returned an opportunity has committed
\* total_stake = min(bankroll * max_stake_percentage / 100, bankroll * 0.10)
\* and split it as stake_i = (p_i / total) * total_stake with p_i = 1/odds_i
\* and total = p_home + p_away; the two unrounded stakes are non-negative and
\* sum to the total stake.
C11_StakeAllocation ==
    ArbitrageReturned =>
    \A c \in ArbitrageCalls :
        c.returned = "BettingOpportunity" =>
            /\ c.total_stake
                 = RMin(RDiv(RMul(bankroll, max_stake_percentage), Int2R(100)),
                        RMul(bankroll, R(1, 10)))
            /\ c.home_stake
                 = RMul(RDiv(RDiv(One, c.home_odds), Implied(c.home_odds, c.away_odds)),
                        c.total_stake)
            /\ c.away_stake
                 = RMul(RDiv(RDiv(One, c.away_odds), Implied(c.home_odds, c.away_odds)),
                        c.total_stake)
            /\ RGe(c.home_stake, Zero) /\ RGe(c.away_stake, Zero)
            /\ RAdd(c.home_stake, c.away_stake) = c.total_stake

\* an emitted arbitrage whose total stake is the 10% ceiling, not the
\* configured cap, and whose two stakes differ
C11_Witness ==
    \E c \in ArbitrageCalls :
        /\ ArbitrageReturned
        /\ c.returned = "BettingOpportunity"
        /\ c.opp \in EmittedArbitrage
        /\ RLt(c.total_stake, max_stake_per_opportunity)
        /\ c.home_stake # c.away_stake

\* the loop of calculate_arbitrage_opportunities is through with match i
ArbitrageDone(i) ==
    \/ pc \in {"value", "sort", "done"}
    \/ pc = "arbitrage" /\ idx > i
    \/ pc = "raised" /\ error.fn = "calculate_value_bets"
    \/ pc = "raised" /\ error.fn = "calculate_arbitrage_opportunities"
         /\ error.match > i

\* the arbitrage opportunities emitted for match i, in order
ArbitrageOf(i) ==
    LET OfMatch(o) == o.match = i IN SelectSeq(arbitrage_opps, OfMatch)

\* (1 / (1/h + 1/a) - 1) * 100
ProfitPercentage(h, a) == RMul(RSub(RDiv(One, Implied(h, a)), One), Int2R(100))

\* best odds h and a of a match qualify: 1/h + 1/a < 1 and the profit
\* percentage is at least min_profit_percentage
Qualifies(h, a) ==
    /\ h # Zero /\ a # Zero
    /\ Implied(h, a) # Zero
    /\ RLt(Implied(h, a), One)
    /\ RGe(ProfitPercentage(h, a), min_profit_percentage)

\* the well-formed match m has best odds that qualify
MatchQualifies(m) ==
    \E h \in { m.odds[k].home : k \in DOMAIN m.odds },
       a \in { m.odds[k].away : k \in DOMAIN m.odds } :
        Highest(m, "home", h) /\ Highest(m, "away", a) /\ Qualifies(h, a)

\* C12: calculate_arbitrage_opportunities emits at most one arbitrage
\* opportunity per match, and emits one for a match exactly when the match's
\* best odds h and a satisfy 1/h + 1/a < 1 and
\* profit_percentage = (1 / (1/h + 1/a) - 1) * 100 >= min_profit_percentage.
C12_OnePerQualifyingMatch ==
    ArbitrageReturned =>
    \A i \in DOMAIN matches :
        /\ Len(ArbitrageOf(i)) <= 1
        /\ WellFormed(matches[i]) =>
              /\ (Len(ArbitrageOf(i)) = 1) <=> MatchQualifies(matches[i])
              /\ \A o \in Range(ArbitrageOf(i)) :
                    \E h \in { matches[i].odds[k].home : k \in DOMAIN matches[i].odds },
                       a \in { matches[i].odds[k].away : k \in DOMAIN matches[i].odds } :
                        /\ Highest(matches[i], "home", h)
                        /\ Highest(matches[i], "away", a)
                        /\ o.profit_percentage = ProfitPercentage(h, a)

\* under the threshold 22 the loop is through with a match whose best odds
\* give an arbitrage of a lower profit percentage, and has emitted nothing
\* for it
C12_Witness ==
    /\ ArbitrageReturned
    /\ min_profit_percentage = Int2R(22)
    /\ \E i \in DOMAIN matches :
         /\ ArbitrageDone(i) /\ WellFormed(matches[i])
         /\ ArbitrageOf(i) = <<>>
         /\ \E c \in ArbitrageCalls :
              /\ c.match = i /\ c.returned = "BettingOpportunity"
              /\ RLt(c.profit_percentage, min_profit_percentage)

\* the calls of _create_value_bet that returned an opportunity
ValueBetCalls ==
    { c \in Range(calls) : c.fn = "_create_value_bet" /\ c.raised = "none" }

\* 0.25 * (v / 100) / (q - 1) * bankroll, for q # 1
QuarterKelly(q, v) ==
    RMul(RMul(R(1, 4), RDiv(RDiv(v, Int2R(100)), RSub(q, One))), bankroll)

\* C13: when calculate_value_bets returns, every value bet it emitted, with
\* quoted odds q and value_percentage v, has the unrounded stake min(0.25 * (v / 100) / (q - 1) * bankroll,
\* bankroll * max_stake_percentage / 100, bankroll * 0.05).
C13_ValueStake ==
    ValueReturned =>
    \A c \in ValueBetCalls :
        /\ c.opp.profit_percentage = c.value_percentage
        /\ \A b \in DOMAIN c.opp.stake_distribution :
               c.opp.stake_distribution[b].odds = c.odds
        /\ c.stake
             = RMin(QuarterKelly(c.odds, c.value_percentage),
                    RMin(RDiv(RMul(bankroll, max_stake_percentage), Int2R(100)),
                         RMul(bankroll, R(1, 20))))

\* an emitted value bet staked at its quarter-Kelly size, below both caps
C13_Witness ==
    \E c \in ValueBetCalls :
        /\ ValueReturned
        /\ c.opp \in EmittedValueBets
        /\ c.stake = QuarterKelly(c.odds, c.value_percentage)
        /\ RLt(c.stake, max_stake_per_opportunity)
        /\ RLt(c.stake, RMul(bankroll, R(1, 20)))

\* C14: no call of _create_value_bet raises, and when calculate_value_bets
\* returns, every value bet it created quotes odds > 1 and has a strictly
\* positive unrounded stake; its roi is (quoted_odds - 1) * 100 whatever the stake, its expected
\* profit is stake * (quoted_odds - 1), and the guaranteed_profit field holds
\* that amount to the cent.
C14_ValueRoi ==
    /\ \A k \in DOMAIN calls :
          calls[k].fn = "_create_value_bet" => calls[k].raised = "none"
    /\ ValueReturned =>
        \A c \in ValueBetCalls :
            /\ RGt(c.odds, One)
            /\ RGt(c.stake, Zero)
            /\ c.roi = RMul(RSub(c.odds, One), Int2R(100))
            /\ c.opp.roi = c.roi
            /\ c.potential_profit = RMul(c.stake, RSub(c.odds, One))
            /\ c.opp.guaranteed_profit = round2(RMul(c.stake, RSub(c.odds, One)))

\* two value bets of different stakes have been emitted
C14_Witness ==
    \E c \in ValueBetCalls : \E d \in ValueBetCalls :
        /\ ValueReturned
        /\ c.opp \in EmittedValueBets /\ d.opp \in EmittedValueBets
        /\ c.stake # d.stake
        /\ c.odds # d.odds

\* the value bets emitted for match i on the side of bookmaker k's quote
ValueBetsOf(i, k, side) ==
    LET OfPair(o) ==
            /\ o.match = i
            /\ k \in DOMAIN o.stake_distribution
            /\ SideOf(matches[i], o.stake_distribution[k]) = side
    IN  SelectSeq(value_opps, OfPair)

\* fair is a fair estimate: a pair of fair probabilities other than (0, 0)
HasFairEstimate(fair) == fair.err = "none" /\ fair.probs # <<Zero, Zero>>

\* the quoted price clears both tests against the fair odds of its side
ClearsEdge(quoted, fair_odds) ==
    /\ RGt(quoted, RMul(fair_odds, R(105, 100)))
    /\ RGe(RMul(RSub(RDiv(quoted, fair_odds), One), Int2R(100)),
           min_profit_percentage)

\* the value bets of the well-formed match at index i are those of the pairs
\* that clear the edge over the fair odds
OnePerClearingPair(i, fair_home_odds, fair_away_odds) ==
    \A k \in DOMAIN matches[i].odds :
        /\ Len(ValueBetsOf(i, k, "home"))
             = IF ClearsEdge(matches[i].odds[k].home, fair_home_odds) THEN 1 ELSE 0
        /\ Len(ValueBetsOf(i, k, "away"))
             = IF ClearsEdge(matches[i].odds[k].away, fair_away_odds) THEN 1 ELSE 0

\* the same, given the fair probabilities of the match
OnePerPairGiven(i, fair) ==
    HasFairEstimate(fair) =>
        OnePerClearingPair(i, fair_odds_of(fair.probs[1]), fair_odds_of(fair.probs[2]))

\* C15: for each match with a fair estimate, calculate_value_bets returns
\* exactly one value bet for every (bookmaker, side) pair whose quoted odds
\* exceed fair_odds * 1.05 with value_percentage >= min_profit_percentage,
\* and none for any other pair.
C15_OnePerClearingPair ==
    ValueReturned =>
    \A i \in DOMAIN matches :
        WellFormed(matches[i]) =>
            OnePerPairGiven(i, _calculate_fair_probabilities(matches[i].odds))

\* one match has yielded value bets with two bookmakers, on different sides,
\* and nothing on the other side of either quote
C15_Witness ==
    \E i \in DOMAIN matches :
        /\ ValueReturned /\ WellFormed(matches[i])
        /\ Len(matches[i].odds) = 2
        /\ Len(ValueBetsOf(i, 1, "away")) = 1
        /\ Len(ValueBetsOf(i, 2, "home")) = 1
        /\ ValueBetsOf(i, 1, "home") = <<>>
        /\ ValueBetsOf(i, 2, "away") = <<>>

\* C16: a run over a dataset whose matches list is empty returns without
\* raising, with no arbitrage opportunity and no value bet, and its reporter
\* has output a report with total_opportunities: 0.
C16_EmptyDatasetReport ==
    (pc = "returned" /\ matches = <<>>) =>
        /\ error = NoError
        /\ arbitrage_opps = <<>> /\ value_opps = <<>>
        /\ all_opportunities = <<>>
        /\ report.written
        /\ report.total_opportunities = 0

\* the match entry has every field and an empty odds mapping
EmptyOdds(m) == WellFormed(m) /\ m.odds = <<>>

\* what the matches from index j on that have quotes contribute to the
\* result of calculate_arbitrage_opportunities
RECURSIVE ArbitrageWithoutEmpty(_)
ArbitrageWithoutEmpty(j) ==
    IF j > Len(matches) THEN <<>>
    ELSE (IF EmptyOdds(matches[j]) THEN <<>> ELSE arbitrage_match(j).opps)
         \o ArbitrageWithoutEmpty(j + 1)

\* the same for calculate_value_bets
RECURSIVE ValueWithoutEmpty(_)
ValueWithoutEmpty(j) ==
    IF j > Len(matches) THEN <<>>
    ELSE (IF EmptyOdds(matches[j]) THEN <<>> ELSE opps_of(value_match(j).calls))
         \o ValueWithoutEmpty(j + 1)

\* C17: a match whose odds mapping is empty raises nothing in either
\* detector and gets no arbitrage opportunity and no value bet, and the list
\* each detector returns is made of the opportunities of the other matches,
\* in order.
C17_EmptyOddsSkipped ==
    /\ \A i \in DOMAIN matches :
          EmptyOdds(matches[i]) =>
              /\ ~(error.type # "none" /\ error.match = i)
              /\ \A o \in Emitted : o.match # i
              /\ \A c \in Range(calls) :
                    (c.fn \in {"_calculate_arbitrage", "_create_value_bet"})
                        => c.match # i
    /\ (pc = "value" /\ idx = 1) => arbitrage_opps = ArbitrageWithoutEmpty(1)
    /\ pc = "sort" => value_opps = ValueWithoutEmpty(1)

\* both detectors are through with a dataset in which a match without
\* quotes comes before a match that yields an opportunity
C17_Witness ==
    /\ pc = "sort"
    /\ Len(matches) = 2
    /\ EmptyOdds(matches[1])
    /\ \E o \in Range(all_opportunities) : o.match = 2

\* every quote of the well-formed match m has two positive prices
AllPositive(m) == \A k \in DOMAIN m.odds : Positive(m.odds[k])

\* When calculate_arbitrage_opportunities returns, every call of
\* _calculate_arbitrage has got the highest home price and the highest away
\* price over the quotes of its match, each with a bookmaker that quoted it,
\* and every match that has quotes, all of them positive, has been evaluated.
BestOddsEvaluated ==
    ArbitrageReturned =>
    /\ \A c \in ArbitrageCalls :
          /\ Highest(matches[c.match], "home", c.home_odds)
          /\ Highest(matches[c.match], "away", c.away_odds)
          /\ c.home_book \in DOMAIN matches[c.match].odds
          /\ c.away_book \in DOMAIN matches[c.match].odds
          /\ matches[c.match].odds[c.home_book].home = c.home_odds
          /\ matches[c.match].odds[c.away_book].away = c.away_odds
    /\ \A i \in DOMAIN matches :
          (WellFormed(matches[i]) /\ matches[i].odds # <<>>
             /\ AllPositive(matches[i]))
          => \E c \in ArbitrageCalls : c.match = i

\* the quotes of scenario 1: (2.10, 2.05) and (1.95, 2.20)
Scenario1Odds ==
    << [home |-> R(21, 10), away |-> R(41, 20)],
       [home |-> R(39, 20), away |-> R(11, 5)] >>

\* the match at index i is the match of scenario 1, analysed with a bankroll
\* of 1000 under a threshold of at most 1%
Scenario1(i) ==
    /\ ArbitrageDone(i)
    /\ bankroll = Int2R(1000)
    /\ WellFormed(matches[i])
    /\ matches[i].odds = Scenario1Odds
    /\ RLe(min_profit_percentage, One)

\* Scenario 1 gives best home 2.10 from the first bookmaker, best away 2.20
\* from the second, a total implied probability below 1 and an emitted
\* arbitrage whose profit_percentage is p to two decimals.
Scenario1Emits(p) ==
    \A i \in DOMAIN matches :
        Scenario1(i) =>
            \E c \in ArbitrageCalls :
                /\ c.match = i
                /\ c.home_odds = R(21, 10) /\ c.home_book = 1
                /\ c.away_odds = R(11, 5) /\ c.away_book = 2
                /\ RLt(c.total_prob, One)
                /\ c.returned = "BettingOpportunity"
                /\ c.opp \in Range(arbitrage_opps)
                /\ round2(c.opp.profit_percentage) = p

\* C18 as stated: the arbitrage detector evaluates, for each match, the
\* highest home odds and the highest away odds over the match's quotes, each
\* attributed to a bookmaker that quoted it, and scenario 1 emits an
\* arbitrage with profit_percentage 7.45% to two decimals.
C18_AsStated == BestOddsEvaluated /\ Scenario1Emits(R(745, 100))

\* C18 amended: the same, with the profit_percentage of scenario 1 being
\* 7.44% to two decimals ((1 / (1/2.10 + 1/2.20) - 1) * 100 = 320/43).
C18_BestOddsScenario ==
    /\ BestOddsEvaluated
    /\ Scenario1Emits(R(744, 100))
    /\ \A i \in DOMAIN matches :
          Scenario1(i) => \A o \in Range(ArbitrageOf(i)) :
                              o.profit_percentage = R(320, 43)

\* the arbitrage of scenario 1 has been emitted
C18_Witness ==
    \E i \in DOMAIN matches :
        /\ Scenario1(i)
        /\ Len(ArbitrageOf(i)) = 1

\* the well-formed match m is quoted by a single bookmaker, with positive
\* prices that carry no negative margin: 1/h + 1/a >= 1
SingleQuoteWithMargin(m) ==
    /\ WellFormed(m)
    /\ Len(m.odds) = 1
    /\ Positive(m.odds[1])
    /\ RGe(Implied(m.odds[1].home, m.odds[1].away), One)

\* C19: a match quoted by a single bookmaker whose odds have
\* 1/h + 1/a >= 1 raises nothing in calculate_value_bets, and when
\* calculate_value_bets returns it has yielded no value bet on either side,
\* each quoted price being at most the fair odds of its side; for the quote
\* (1.80, 1.80) the fair probabilities are 0.5 and 0.5 and the fair odds 2.0
\* and 2.0.
C19_SingleBookmakerNoValue ==
    /\ \A i \in DOMAIN matches :
          (error.fn = "calculate_value_bets" /\ error.match = i)
              => ~SingleQuoteWithMargin(matches[i])
    /\ ValueReturned =>
        \A i \in DOMAIN matches :
            SingleQuoteWithMargin(matches[i]) =>
                /\ \A o \in EmittedValueBets : o.match # i
                /\ \A c \in Range(calls) :
                       c.fn = "_create_value_bet" => c.match # i
                /\ \E c \in FairCalls : c.match = i
                /\ \A c \in FairCalls :
                      c.match = i =>
                          /\ RLe(matches[i].odds[1].home, fair_odds_of(c.probs[1]))
                          /\ RLe(matches[i].odds[1].away, fair_odds_of(c.probs[2]))
                          /\ (matches[i].odds[1] = [home |-> R(9, 5), away |-> R(9, 5)])
                                => /\ c.probs = <<R(1, 2), R(1, 2)>>
                                   /\ fair_odds_of(c.probs[1]) = Int2R(2)
                                   /\ fair_odds_of(c.probs[2]) = Int2R(2)

\* under the threshold 0 the value loop is through with a match that only
\* one bookmaker quotes, at (1.80, 1.80), and has emitted nothing for it
C19_Witness ==
    /\ min_profit_percentage = Zero
    /\ \E i \in DOMAIN matches :
         /\ ValueReturned
         /\ SingleQuoteWithMargin(matches[i])
         /\ matches[i].odds[1] = [home |-> R(9, 5), away |-> R(9, 5)]
         /\ \E c \in FairCalls : c.match = i
         /\ \A o \in EmittedValueBets : o.match # i

\* the sum of guaranteed_profit over the first n opportunities of the list
RECURSIVE ProfitOfFirst(_, _)
ProfitOfFirst(opps, n) ==
    IF n = 0 THEN Zero
    ELSE RAdd(ProfitOfFirst(opps, n - 1), opps[n].guaranteed_profit)

\* the number of opportunities of the list that have the type
CountOfType(opps, type) ==
    Cardinality({ n \in DOMAIN opps : opps[n].opportunity_type = type })

\* the fields of a Betting Opportunity
OpportunityFields ==
    { "match", "home_team", "away_team", "opportunity_type", "profit_percentage",
      "stake_distribution", "total_stake", "guaranteed_profit", "roi" }

\* C20: a run that found opportunities has printed a summary and written a
\* report; in the report total_opportunities is the length of the returned
\* list, total_potential_profit the sum of guaranteed_profit over it, and the
\* serialized opportunities are the opportunities of the list, in its order,
\* field by field; in the summary the number found is that length, the
\* arbitrage count plus the value-bet count equals it, the total potential
\* profit is that sum and the opportunities are shown in the list's order.
C20_ReportMatchesList ==
    /\ report.written =>
          /\ report.total_opportunities = Len(all_opportunities)
          /\ report.total_potential_profit
               = ProfitOfFirst(all_opportunities, Len(all_opportunities))
          /\ DOMAIN report.opportunities = DOMAIN all_opportunities
          /\ \A n \in DOMAIN all_opportunities :
                /\ DOMAIN report.opportunities[n] = OpportunityFields
                /\ \A f \in OpportunityFields :
                      report.opportunities[n][f] = all_opportunities[n][f]
          /\ \A n \in 1..(Len(report.opportunities) - 1) :
                RGe(report.opportunities[n].roi, report.opportunities[n + 1].roi)
    /\ displayed.kind = "FOUND" =>
          /\ displayed.found = Len(all_opportunities)
          /\ displayed.arbitrage_count + displayed.value_count = displayed.found
          /\ displayed.arbitrage_count = CountOfType(all_opportunities, "arbitrage")
          /\ displayed.value_count = CountOfType(all_opportunities, "value_bet")
          /\ displayed.total_potential_profit
               = ProfitOfFirst(all_opportunities, Len(all_opportunities))
          /\ DOMAIN displayed.shown = DOMAIN all_opportunities
          /\ \A n \in DOMAIN all_opportunities :
                /\ displayed.shown[n].index = n
                /\ displayed.shown[n].match = all_opportunities[n].match
                /\ displayed.shown[n].total_stake = all_opportunities[n].total_stake
                /\ displayed.shown[n].profit = all_opportunities[n].guaranteed_profit
    /\ (pc = "returned" /\ all_opportunities # <<>>) =>
          report.written /\ displayed.kind = "FOUND"

\* a run has reported an arbitrage opportunity and a value bet that the sort
\* had put in another order, with a total potential profit above either's
C20_Witness ==
    /\ pc = "returned"
    /\ report.written
    /\ displayed.kind = "FOUND"
    /\ displayed.arbitrage_count >= 1
    /\ displayed.value_count >= 1
    /\ all_opportunities # arbitrage_opps \o value_opps
    /\ \A n \in DOMAIN all_opportunities :
          RGt(report.total_potential_profit, report.opportunities[n].guaranteed_profit)

\* C21: every emitted arbitrage opportunity comes from a _calculate_arbitrage
\* call with odds h and a whose roi and profit_percentage both equal
\* (1/(1/h + 1/a) - 1) * 100, an expression of the two odds alone (neither
\* the bankroll nor max_stake_percentage occurs in it), and both are strictly
\* positive.
C21_RoiIsProfitPercentage ==
    \A o \in EmittedArbitrage :
        /\ o.roi = o.profit_percentage
        /\ RGt(o.roi, Zero) /\ RGt(o.profit_percentage, Zero)
        /\ \E c \in ArbitrageCalls :
              /\ c.returned = "BettingOpportunity"
              /\ c.opp = o
              /\ o.roi = ProfitPercentage(c.home_odds, c.away_odds)
              /\ o.profit_percentage = ProfitPercentage(c.home_odds, c.away_odds)

\* an arbitrage emitted under the small bankroll, where the configured cap
\* and not the 10% ceiling is the total stake, and at prices that differ
C21_Witness ==
    \E c \in ArbitrageCalls :
        /\ c.returned = "BettingOpportunity"
        /\ c.opp \in EmittedArbitrage
        /\ bankroll # Int2R(1000)
        /\ c.total_stake = max_stake_per_opportunity
        /\ RLt(c.total_stake, RMul(bankroll, R(1, 10)))
        /\ c.home_odds # c.away_odds
        /\ c.opp.roi = c.opp.profit_percentage

(***************************************************************************)
(* The scraper (src/afl_selenium_scraper_NEW.py).  A Python string is the  *)
(* sequence of its characters; a dict is the sequence of its <<key,        *)
(* value>> pairs in insertion order.                                       *)
(***************************************************************************)
\* str.lower on one character of the names used
lower_char(ch) ==
    CASE ch = "A" -> "a" [] ch = "C" -> "c" [] ch = "F" -> "f"
      [] ch = "L" -> "l" [] ch = "S" -> "s" [] OTHER -> ch

\* the code point of a lower-case character, which orders Python strings
code_point ==
    (" " :> 32) @@ ("_" :> 95) @@ ("a" :> 97) @@ ("c" :> 99) @@ ("f" :> 102)
      @@ ("i" :> 105) @@ ("l" :> 108) @@ ("n" :> 110) @@ ("o" :> 111)
      @@ ("s" :> 115) @@ ("t" :> 116) @@ ("v" :> 118) @@ ("w" :> 119)

\* str.lower
lower(str) == [k \in DOMAIN str |-> lower_char(str[k])]

\* str.strip: leading and trailing white space removed
RECURSIVE lstrip(_)
lstrip(str) ==
    IF str # <<>> /\ Head(str) = " " THEN lstrip(Tail(str)) ELSE str

RECURSIVE rstrip(_)
rstrip(str) ==
    IF str # <<>> /\ str[Len(str)] = " "
    THEN rstrip(SubSeq(str, 1, Len(str) - 1))
    ELSE str

strip(str) == lstrip(rstrip(str))

\* str ends with the characters of suffix
endswith(str, suffix) ==
    /\ Len(str) >= Len(suffix)
    /\ SubSeq(str, Len(str) - Len(suffix) + 1, Len(str)) = suffix

\* re.sub(r'\s+suffix$', '', str): the suffix goes together with the whole
\* run of white space before it, and only if there is such a run
remove_suffix(str, suffix) ==
    IF /\ endswith(str, <<" ">> \o suffix)
    THEN rstrip(SubSeq(str, 1, Len(str) - Len(suffix)))
    ELSE str

\* re.sub(r'\s+(fc|afl)$', '', team): one substitution at the end of the
\* string, of the alternative that matches there
sub_fc_afl(team) ==
    IF endswith(team, <<" ", "f", "c">>)
    THEN remove_suffix(team, <<"f", "c">>)
    ELSE remove_suffix(team, <<"a", "f", "l">>)

\* normalize_team of _create_match_key
normalize_team(team) == sub_fc_afl(lower(strip(team)))

\* s < t for Python strings: by code point, a proper prefix first
RECURSIVE str_less(_, _)
str_less(str, other) ==
    IF other = <<>> THEN FALSE
    ELSE IF str = <<>> THEN TRUE
    ELSE IF Head(str) # Head(other)
         THEN code_point[Head(str)] < code_point[Head(other)]
    ELSE str_less(Tail(str), Tail(other))

\* sorted([home_norm, away_norm]): a stable sort of two items
sorted_pair(home_norm, away_norm) ==
    IF str_less(away_norm, home_norm)
    THEN <<away_norm, home_norm>>
    ELSE <<home_norm, away_norm>>

\* f"{teams[0]}_vs_{teams[1]}"
match_key_of(teams) == teams[1] \o <<"_", "v", "s", "_">> \o teams[2]

\* _create_match_key
_create_match_key(home_team, away_team) ==
    match_key_of(sorted_pair(normalize_team(home_team), normalize_team(away_team)))

\* `key in d`
dict_has(d, key) == \E k \in DOMAIN d : d[k][1] = key

\* d[key], for a key of d
dict_get(d, key) == d[CHOOSE k \in DOMAIN d : d[k][1] = key][2]

\* d[key] = value: a key of d keeps its place, a new key goes to the end
dict_set(d, key, value) ==
    IF dict_has(d, key)
    THEN [k \in DOMAIN d |-> IF d[k][1] = key THEN <<key, value>> ELSE d[k]]
    ELSE Append(d, <<key, value>>)

\* list(d.values())
dict_values(d) == [k \in DOMAIN d |-> d[k][2]]

\* `if key not in consolidated: consolidated[key] = {...}`
consolidated_record(consolidated, key, match) ==
    IF dict_has(consolidated, key)
    THEN consolidated
    ELSE dict_set(consolidated, key,
                  [home_team |-> match.home_team,
                   away_team |-> match.away_team,
                   match_time |-> match.match_time,
                   odds |-> <<>>])

\* consolidated[key]['odds'][bookmaker] = {'home': ..., 'away': ...}
consolidated_quote(consolidated, key, bookmaker, match) ==
    dict_set(consolidated, key,
             [dict_get(consolidated, key) EXCEPT
                 !.odds = dict_set(@, bookmaker,
                                   [home |-> match.home_odds,
                                    away |-> match.away_odds])])

\* the body of the inner loop of consolidate_odds, for the match with this key
consolidate_keyed(consolidated, key, bookmaker, match) ==
    consolidated_quote(consolidated_record(consolidated, key, match),
                       key, bookmaker, match)

\* the body of the inner loop of consolidate_odds
consolidate_match(consolidated, bookmaker, match) ==
    consolidate_keyed(consolidated,
                      _create_match_key(match.home_team, match.away_team),
                      bookmaker, match)

\* `for match in matches`
RECURSIVE consolidate_matches(_, _, _)
consolidate_matches(consolidated, bookmaker, listed) ==
    IF listed = <<>> THEN consolidated
    ELSE consolidate_matches(consolidate_match(consolidated, bookmaker, Head(listed)),
                             bookmaker, Tail(listed))

\* `for bookmaker, matches in all_odds.items()`
RECURSIVE consolidate_items(_, _)
consolidate_items(consolidated, items) ==
    IF items = <<>> THEN consolidated
    ELSE consolidate_items(
             consolidate_matches(consolidated, Head(items)[1], Head(items)[2]),
             Tail(items))

\* consolidate_odds
consolidate_odds(odds) == dict_values(consolidate_items(<<>>, odds))

\* the keys of self.bookmakers, in the order of the dict literal
bookmakers == <<"sportsbet", "ladbrokes", "pointsbet">>

(***************************************************************************)
(* What the bookmakers' pages can hold: the match dicts a parser returns.  *)
(***************************************************************************)
Cats == <<"C", "a", "t", "s">>
Swans == <<"S", "w", "a", "n", "s">>
Lions == <<"L", "i", "o", "n", "s">>
CatsFC == <<"C", "a", "t", "s", " ", "F", "C">>
SwansPadded == <<"s", "w", "a", "n", "s", " ">>

\* the match_data dict of a parser, without its 'bookmaker' field, which
\* consolidate_odds does not read
Listed(home_team, away_team, home_odds, away_odds, match_time) ==
    [home_team |-> home_team, away_team |-> away_team,
     home_odds |-> home_odds, away_odds |-> away_odds, match_time |-> match_time]

\* one fixture listed home-first, the same fixture listed away-first and
\* under other spellings, and another fixture
Listings ==
    { Listed(Cats, Swans, R(3, 2), R(13, 5), "None"),
      Listed(Swans, Cats, R(27, 10), R(29, 20), "7:30pm"),
      Listed(CatsFC, SwansPadded, R(8, 5), R(12, 5), "None"),
      Listed(Lions, Cats, R(19, 10), R(19, 10), "Today, 7:30pm") }

\* the lists of k match dicts
RECURSIVE ListingSeqs(_)
ListingSeqs(k) ==
    IF k = 0 THEN { <<>> }
    ELSE { <<x>> \o l : x \in Listings, l \in ListingSeqs(k - 1) }

\* the number of match dicts in the dict of scraped odds
RECURSIVE ListedIn(_)
ListedIn(odds) ==
    IF odds = <<>> THEN 0 ELSE Len(Head(odds)[2]) + ListedIn(Tail(odds))

(***************************************************************************)
(* scrape_all_odds and the main function of the scraper.                   *)
(***************************************************************************)
\* the analysis is not running
AnalysisIdle ==
    /\ bankroll = Int2R(1000)
    /\ min_profit_percentage = One
    /\ max_stake_percentage = Int2R(25)
    /\ matches = <<>>
    /\ pc = "load"
    /\ idx = 1
    /\ arbitrage_opps = <<>>
    /\ value_opps = <<>>
    /\ all_opportunities = <<>>
    /\ error = NoError
    /\ calls = <<>>
    /\ displayed = NothingDisplayed
    /\ report = NoReport

analysis == <<config, reported, pc, idx, arbitrage_opps, value_opps,
              all_opportunities, error, calls>>

\* start_driver: installing the driver or creating the Chrome instance
\* raises, self.driver stays None and start_driver returns False;
\* scrape_all_odds returns {}
StartDriverFails ==
    /\ scraper_pc = "start_driver"
    /\ started' = "False"
    /\ scraper_pc' = "returned"
    /\ all_odds' = <<>>
    /\ UNCHANGED <<analysis, driver, visits, consolidated_odds>>

\* start_driver: the Chrome instance is assigned to self.driver and
\* execute_script raises; start_driver returns False and scrape_all_odds
\* returns {}
StartDriverScriptFails ==
    /\ scraper_pc = "start_driver"
    /\ driver' = "Chrome"
    /\ started' = "False"
    /\ scraper_pc' = "returned"
    /\ all_odds' = <<>>
    /\ UNCHANGED <<analysis, visits, consolidated_odds>>

\* start_driver returns True; all_odds = {}
StartDriver ==
    /\ scraper_pc = "start_driver"
    /\ driver' = "Chrome"
    /\ started' = "True"
    /\ scraper_pc' = "scrape"
    /\ all_odds' = <<>>
    /\ UNCHANGED <<analysis, visits, consolidated_odds>>

\* the bookmaker of the running iteration: every iteration adds one key
bookmaker_name == bookmakers[Len(all_odds) + 1]

\* one iteration of the loop: _scrape_bookmaker_selenium loads the page
\* (a timeout of the wait is passed over) and returns what the parser found
ScrapeBookmaker ==
    /\ scraper_pc = "scrape"
    /\ Len(all_odds) < Len(bookmakers)
    /\ \E k \in 0..(MaxListings - ListedIn(all_odds)) :
          \E odds \in ListingSeqs(k) :
              all_odds' = dict_set(all_odds, bookmaker_name, odds)
    /\ visits' = Append(visits, [bookmaker |-> bookmaker_name, outcome |-> "parsed"])
    /\ UNCHANGED <<analysis, driver, started, scraper_pc, consolidated_odds>>

\* one iteration of the loop: driver.get or the parser raises;
\* _scrape_bookmaker_selenium catches it and returns []
ScrapeBookmakerFails ==
    /\ scraper_pc = "scrape"
    /\ Len(all_odds) < Len(bookmakers)
    /\ all_odds' = dict_set(all_odds, bookmaker_name, <<>>)
    /\ \E raised \in {"driver.get", "parser"} :
          visits' = Append(visits, [bookmaker |-> bookmaker_name, outcome |-> raised])
    /\ UNCHANGED <<analysis, driver, started, scraper_pc, consolidated_odds>>

\* stop_driver: `if self.driver:` quit it and set self.driver = None
stop_driver(d) == IF d # "None" THEN "None" ELSE d

\* the loop is over: `finally: self.stop_driver()`, then `return all_odds`
StopDriverAndReturn ==
    /\ scraper_pc = "scrape"
    /\ Len(all_odds) = Len(bookmakers)
    /\ driver' = stop_driver(driver)
    /\ scraper_pc' = "returned"
    /\ UNCHANGED <<analysis, started, all_odds, visits, consolidated_odds>>

\* main: consolidated_odds = scraper.consolidate_odds(all_odds)
ConsolidateOdds ==
    /\ scraper_pc = "returned"
    /\ consolidated_odds' = consolidate_odds(all_odds)
    /\ scraper_pc' = "consolidated"
    /\ UNCHANGED <<analysis, driver, started, all_odds, visits>>

ScraperInit == AnalysisIdle /\ ScraperConstructed

ScraperNext ==
    \/ StartDriverFails
    \/ StartDriverScriptFails
    \/ StartDriver
    \/ ScrapeBookmaker
    \/ ScrapeBookmakerFails
    \/ StopDriverAndReturn
    \/ ConsolidateOdds

ScraperSpec == ScraperInit /\ [][ScraperNext]_vars

\* the two names are of one team
SameTeam(team, other) == normalize_team(team) = normalize_team(other)

\* the price the match dict m carries for the team
PriceFor(m, team) ==
    IF SameTeam(m.home_team, team) THEN m.home_odds ELSE m.away_odds

\* the match dicts scrape_all_odds has for the bookmaker
ListedBy(bookmaker) == Range(dict_get(all_odds, bookmaker))

\* the quote is what some match dict of its bookmaker for the record's
\* fixture says about the record's home team and away team
QuoteFollowsRecord(rec, item) ==
    \E m \in ListedBy(item[1]) :
        /\ _create_match_key(m.home_team, m.away_team)
             = _create_match_key(rec.home_team, rec.away_team)
        /\ item[2].home = PriceFor(m, rec.home_team)
        /\ item[2].away = PriceFor(m, rec.away_team)

\* the record has at most one quote of a bookmaker
OneQuotePerBookmaker(rec) ==
    \A i, j \in DOMAIN rec.odds : rec.odds[i][1] = rec.odds[j][1] => i = j

\* C22: after consolidate_odds every consolidated record has at most one
\* quote per bookmaker, and every quote's 'home' price is the price its
\* bookmaker listed for the record's home_team and its 'away' price the one
\* for the record's away_team, also when bookmakers list a fixture with the
\* teams in opposite order.
C22_QuotesFollowRecordTeams ==
    scraper_pc = "consolidated" =>
        \A n \in DOMAIN consolidated_odds :
            /\ OneQuotePerBookmaker(consolidated_odds[n])
            /\ \A i \in DOMAIN consolidated_odds[n].odds :
                  QuoteFollowsRecord(consolidated_odds[n], consolidated_odds[n].odds[i])

\* the bookmakers of the visits, in order
VisitedBookmakers == [k \in DOMAIN visits |-> visits[k].bookmaker]

\* the keys of the dict, in order
Keys(d) == [k \in DOMAIN d |-> d[k][1]]

\* C23: when scrape_all_odds has returned after the driver started, every
\* configured bookmaker was visited in order, the result has one entry per
\* configured bookmaker and an empty list for each bookmaker whose scrape
\* failed; on every exit path the driver is None when the result is
\* returned; and if the driver failed to start the result is empty and no
\* bookmaker was visited.
C23_ScrapeAllOdds ==
    scraper_pc = "returned" =>
        /\ started = "True" =>
              /\ VisitedBookmakers = bookmakers
              /\ Keys(all_odds) = bookmakers
              /\ \A k \in DOMAIN visits :
                    visits[k].outcome # "parsed" =>
                        dict_get(all_odds, visits[k].bookmaker) = <<>>
        /\ driver = "None"
        /\ started = "False" => all_odds = <<>> /\ visits = <<>>

====
